---- MODULE Spec2Model ----
(***************************************************************************)
(* Model of the request transport layer of @cognipeer/cgate-sdk:           *)
(* HttpClient.request (retry loop, timeout timer, backoff sleep) together  *)
(* with the environment it runs in: the fetch primitive, the caller's      *)
(* AbortSignal, and the timer queue of the JavaScript event loop.          *)
(* HttpClient.handleErrorResponse is modelled on the content of the        *)
(* non-2xx response (status, statusText, body).                            *)
(*                                                                         *)
(* Time is counted in milliseconds, as in the source; the clock advances   *)
(* in steps of TickMs.  A pending timer whose due time has come fires      *)
(* before the clock advances again (timers are punctual).                  *)
(***************************************************************************)
EXTENDS Integers, Sequences, FiniteSets, TLC

\* ---------------------------------------------------------------- bounds
MaxRetriesBound == 2
MaxTimeoutTicks == 2
MaxTime == 9
MaxLines == 2
MaxCalls == 2
MaxEvents == 2
MaxFlushes == 2
NumCalls == 2
MaxClock == 3

\* ------------------------------------------------------------- constants
TickMs == 1000

\* configurations a client can be constructed with (no validation of either)
RetryChoices == (-1)..MaxRetriesBound
TimeoutChoices == {n * TickMs : n \in 1..MaxTimeoutTicks}

\* ----------------------------------------------------------------- state
VARIABLES
    maxRetries,     \* this.maxRetries
    timeout,        \* this.timeout (ms)
    hasSignal,      \* options.signal was supplied by the caller
    signalAborted,  \* options.signal.aborted
    pc,             \* position of the request call
    attempt,        \* loop variable of the retry loop
    lastError,      \* local lastError
    thrown,         \* the value the returned promise rejected with
    inflight,       \* attempts whose fetchImpl promise is pending
    timers,         \* pending timeout timers (setTimeout not yet fired/cleared)
    aborted,        \* attempts whose AbortController has been aborted
    sleep,          \* the pending backoff timer of sleep(), or NoSleep
    now,            \* clock (ms)
    starts,         \* history: time at which each attempt called fetchImpl
    outcomes,       \* history: how each attempt's fetchImpl promise settled
    waits,          \* history: elapsed time of each completed backoff wait
    response,       \* the Response the current attempt received, or NoResponse
    raised          \* the CGateAPIError built by handleErrorResponse, or NoAPIError

requestVars == <<maxRetries, timeout, hasSignal, signalAborted, pc, attempt, lastError,
                 thrown, inflight, timers, aborted, sleep, now, starts, outcomes, waits,
                 response, raised>>

\* state of one stream sequence (HttpClient.stream)
VARIABLES
    spc,            \* position of the generator
    sFetches,       \* number of fetchImpl calls made by the stream
    sResponse,      \* the Response received, or NoResponse
    sThrown,        \* the error the sequence ended with, or NoAPIError
    fullBody,       \* history: all bytes of the response body
    wire,           \* bytes of the body the reader has not delivered yet
    pending,        \* bytes of an incomplete character held by the TextDecoder
    buffer,         \* local buffer (characters)
    lines,          \* lines of the current for loop not processed yet
    yielded,        \* history: the values yielded so far
    locked,         \* the body reader holds its lock
    processed,      \* history: the lines the for loop has processed
    viaCreate,      \* the sequence was made by chat.completions.create
    callerSignal,   \* the AbortSignal the caller supplied: "none", "live", "aborted"
    fetchObserves,  \* fetchImpl was given the caller's signal
    yieldedAtAbort, \* history: number of values yielded when the signal aborted, or -1
    injectedAt      \* history: number of values yielded when the consumer called
                    \* throw() on the generator, or -1

streamVars == <<spc, sFetches, sResponse, sThrown, fullBody, wire, pending, buffer,
                lines, yielded, locked, processed, viaCreate, callerSignal,
                fetchObserves, yieldedAtAbort, injectedAt>>

\* URL construction (HttpClient.constructor, HttpClient.buildURL)
VARIABLES
    configBase,     \* history: the baseURL argument of the constructor
    baseURL,        \* this.baseURL
    built           \* the last call of buildURL: its arguments and its result

urlVars == <<configBase, baseURL, built>>

\* construction of a client (CGateClient.constructor, HttpClient.constructor)
VARIABLES
    options,        \* the options object given to new CGateClient
    globalFetch,    \* globalThis.fetch exists in the runtime
    client,         \* "none" (not constructed yet), "constructed" or "threw"
    ctorThrown,     \* name of the error the constructor threw, or "none"
    reported,       \* the last value returned by getBaseURL, or NoURL
    calls           \* number of HTTP calls made through the client

constructVars == <<options, globalFetch, client, ctorThrown, reported, calls>>

\* the tracing callback handler (CGateTracingCallbackHandler)
VARIABLES
    autoFlush,      \* this.autoFlush
    tArrays,        \* the array objects that have been this.events, by identity
    tCur,           \* identity of the array that is this.events now
    tRecorded,      \* number of events recorded so far (events are 1, 2, ...)
    tFlush,         \* the calls of flush made so far, in order of their start
    tServer,        \* history: the payloads the tracing API has received
    tKinds,         \* history: which kind of handler recorded each event
    hook            \* the afterAgent hook of the tracing middleware: where it is

tracingVars == <<autoFlush, tArrays, tCur, tRecorded, tFlush, tServer, tKinds, hook>>

\* concurrent request calls on one client
VARIABLES
    cpc,            \* position of each call
    cattempt,       \* the loop variable `attempt` of each call
    csleep,         \* due time of the pending backoff timer of each call, or -1
    clock,          \* clock (ms)
    cstarts,        \* history: time at which each attempt of each call called fetchImpl
    coutcomes,      \* history: how each attempt of each call ended
    cends           \* history: time at which each attempt of each call ended

pairVars == <<cpc, cattempt, csleep, clock, cstarts, coutcomes, cends>>

\* state of the other operations of the client, untouched by a request call
otherThanRequest == <<streamVars, urlVars, constructVars, tracingVars, pairVars>>
\* state untouched by a stream sequence
otherThanStream == <<requestVars, urlVars, constructVars, tracingVars, pairVars>>
\* state untouched by buildURL
otherThanURL == <<requestVars, streamVars, constructVars, tracingVars, pairVars>>
\* state untouched by the construction of a client and by getBaseURL
otherThanClient == <<requestVars, streamVars, tracingVars, pairVars>>
\* state untouched by the tracing handler
otherThanTracing == <<requestVars, streamVars, urlVars, constructVars, pairVars>>
\* state untouched by the concurrent calls
otherThanPair == <<requestVars, streamVars, urlVars, constructVars, tracingVars>>

vars == <<requestVars, streamVars, urlVars, constructVars, tracingVars, pairVars>>

NoError == [name |-> "none", attempt |-> -1]
NoSleep == [start |-> -1, due |-> -1]

\* error values; `attempt` identifies the attempt that raised the error
CGateError(k) == [name |-> "CGateError", attempt |-> k]
CGateAPIError(k) == [name |-> "CGateAPIError", attempt |-> k]
TypeError(k) == [name |-> "TypeError", attempt |-> k]
AbortError(k) == [name |-> "AbortError", attempt |-> k]
SyntaxError(k) == [name |-> "SyntaxError", attempt |-> k]

\* error instanceof CGateError (CGateAPIError extends CGateError)
InstanceOfCGateError(e) == e.name \in {"CGateError", "CGateAPIError"}

Pow2(k) == 2 ^ k

\* Math.pow(2, attempt) * 1000
BackoffFlat(k) == 1000
Backoff(k) == Pow2(k) * 1000

\* the condition of the catch block under which the error is rethrown
ShouldThrowEarly(error, k) ==
    \/ error.name = "CGateAPIError"
    \/ error.name = "AbortError"
    \/ k + 1 >= maxRetries
ShouldThrowNoAPI(error, k) ==
    \/ error.name = "AbortError"
    \/ k = maxRetries
ShouldThrow(error, k) ==
    \/ error.name = "CGateAPIError"
    \/ error.name = "AbortError"
    \/ k = maxRetries

\* signal: options.signal || controller.signal
FetchSignalExternalOnly == "external"
FetchSignal == IF hasSignal THEN "external" ELSE "controller"

\* the signal handed to fetchImpl for attempt k is already aborted
SignalIsAborted(k) ==
    IF FetchSignal = "external" THEN hasSignal /\ signalAborted ELSE k \in aborted

\* the backoff timer of sleep() is due
SleepElapsedAlways == pc = "sleeping"
SleepElapsed == pc = "sleeping" /\ sleep.due <= now

\* ------------------------------------------------- handleErrorResponse
\* JavaScript undefined, where a string may stand
Undefined == "<undefined>"

\* strings a server may put in error.message / error (the empty string included)
MessageChoices == {"", "boom"}
\* strings a server may put in error.type
TypeChoices == {"", "rate_limit"}

\* Bodies of a non-2xx response.  kind: "invalid" (not JSON), "null", "scalar"
\* (a JSON number, string, boolean or array of none), "object".  For an object,
\* errKind tells what its `error` member is: "absent", "string" (the string is
\* in message) or "object" (with members message and type, each a string or
\* undefined).
Body(kind, errKind, message, type) ==
    [kind |-> kind, errKind |-> errKind, message |-> message, type |-> type]
ErrorBodies ==
    {Body("invalid", "absent", Undefined, Undefined),
     Body("null", "absent", Undefined, Undefined),
     Body("scalar", "absent", Undefined, Undefined),
     Body("object", "absent", Undefined, Undefined)}
    \cup {Body("object", "string", x, Undefined) : x \in MessageChoices}
    \cup {Body("object", "object", x, y) :
             x \in MessageChoices \cup {Undefined}, y \in TypeChoices \cup {Undefined}}

\* non-2xx status lines (statusText is empty over HTTP/2)
StatusLines == {<<404, "Not Found">>, <<500, "">>}

NoBody == Body("none", "absent", Undefined, Undefined)
NoResponse == [ok |-> FALSE, status |-> 0, statusText |-> "", body |-> NoBody]
OkResponse == [ok |-> TRUE, status |-> 200, statusText |-> "OK", body |-> NoBody]
ErrorResponses ==
    {[ok |-> FALSE, status |-> sl[1], statusText |-> sl[2], body |-> b] :
        sl \in StatusLines, b \in ErrorBodies}

\* `HTTP ${response.status}: ${response.statusText}`
DefaultMessageNoText(r) == "HTTP " \o ToString(r.status)
DefaultMessage(r) == "HTTP " \o ToString(r.status) \o ": " \o r.statusText

\* a JavaScript string value is truthy
Truthy(str) == str # Undefined /\ str # ""

\* responseData after the try block: the parsed body, or undefined (NoBody)
\* when response.json() rejected
ResponseDataRaw(r, parsed) == r.body
ResponseData(r, parsed) == IF parsed THEN r.body ELSE NoBody

\* errorMessage after the try block
ErrorMessageStringOnly(r, parsed) ==
    LET data == ResponseData(r, parsed) IN
    IF data.kind = "object" /\ data.errKind = "string"
    THEN data.message
    ELSE DefaultMessage(r)
ErrorMessageFallbackAll(r, parsed) ==
    LET data == ResponseData(r, parsed) IN
    IF data.kind = "object" /\ data.errKind # "absent" /\ Truthy(data.message)
    THEN data.message
    ELSE DefaultMessage(r)
ErrorMessage(r, parsed) ==
    LET data == ResponseData(r, parsed) IN
    IF data.kind = "object" /\ data.errKind = "string"
    THEN data.message
    ELSE IF data.kind = "object" /\ data.errKind = "object"
         THEN (IF Truthy(data.message) THEN data.message ELSE DefaultMessage(r))
         ELSE DefaultMessage(r)

\* errorType after the try block
ErrorType(r, parsed) ==
    LET data == ResponseData(r, parsed) IN
    IF data.kind = "object" /\ data.errKind = "object" THEN data.type ELSE Undefined

\* response.json() of the error response resolves (the body is JSON)
BodyParses(r) == r.body.kind # "invalid"

\* new CGateAPIError(errorMessage, response.status, errorType, responseData)
NoAPIError ==
    [name |-> "none", message |-> Undefined, statusCode |-> 0,
     errorType |-> Undefined, response |-> NoBody]
APIErrorFor(r, parsed) ==
    [name |-> "CGateAPIError",
     message |-> ErrorMessage(r, parsed),
     statusCode |-> r.status,
     errorType |-> ErrorType(r, parsed),
     response |-> ResponseData(r, parsed)]

\* ------------------------------------------------------ HttpClient.buildURL
\* A URL is a host, the segments of its path (the path is "/" before each
\* segment, so <<"api", "">> is "/api/" and <<>> is the empty path) and its
\* query parameters.
URL(host, segs, params) == [host |-> host, segs |-> segs, params |-> params]

\* DEFAULT_BASE_URL = 'https://api.cognipeer.com/api/client/v1'
DefaultBaseURL == URL("api.cognipeer.com", <<"api", "client", "v1">>, <<>>)

\* base URLs a client is configured with
BaseChoices ==
    {DefaultBaseURL,
     URL("api.cognipeer.com", <<"api", "client", "v1", "">>, <<>>),
     URL("x.example.com", <<>>, <<>>),
     URL("x.example.com", <<"">>, <<>>),
     URL("x.example.com", <<"", "">>, <<>>),
     URL("x.example.com", <<"gw">>, <<>>)}

\* baseURL.replace(/\/$/, ''): one trailing slash is removed
StripTrailingSlash(u) ==
    IF u.segs # <<>> /\ u.segs[Len(u.segs)] = ""
    THEN URL(u.host, SubSeq(u.segs, 1, Len(u.segs) - 1), u.params)
    ELSE u

\* paths the resources pass: `lead` leading slashes, then the segments
PathChoices ==
    {[lead |-> n, segs |-> sg] :
        n \in 0..1,
        sg \in {<<"chat">>, <<"api", "client", "v1", "chat", "completions">>}}

\* path.startsWith('/') ? path.slice(1) : path
StripLeadingSlash(path) ==
    IF path.lead > 0 THEN [lead |-> path.lead - 1, segs |-> path.segs] ELSE path

\* new URL(rel, base): a path that starts with "/" replaces the path of the
\* base; any other path replaces the last segment of the path of the base
\* (the parsed path of a base without path is "/")
ResolveURL(rel, base) ==
    LET basePath == IF base.segs = <<>> THEN <<"">> ELSE base.segs IN
    IF rel.lead > 0
    THEN URL(base.host, rel.segs, <<>>)
    ELSE URL(base.host, SubSeq(basePath, 1, Len(basePath) - 1) \o rel.segs, <<>>)

\* values of query parameters: string | number | boolean | undefined
QueryValue(type, num, str, flag) ==
    [type |-> type, num |-> num, str |-> str, flag |-> flag]
UndefinedValue == QueryValue("undefined", 0, "", FALSE)
ValueChoices ==
    {UndefinedValue,
     QueryValue("number", 0, "", FALSE),
     QueryValue("number", 5, "", FALSE),
     QueryValue("string", 0, "", FALSE),
     QueryValue("string", 0, "a", FALSE),
     QueryValue("boolean", 0, "", FALSE)}

\* the keys of a query object, in the order of Object.entries
QueryKeys == <<"limit", "q">>
\* query objects: each key absent or present with a value; NoQuery when the
\* caller passes no query
NoQuery == [k \in {} |-> UndefinedValue]
QueryChoices ==
    UNION {[ks -> ValueChoices] : ks \in SUBSET {QueryKeys[i] : i \in 1..Len(QueryKeys)}}

\* String(value)
StringOf(v) ==
    CASE v.type = "number" -> ToString(v.num)
      [] v.type = "boolean" -> (IF v.flag THEN "true" ELSE "false")
      [] v.type = "string" -> v.str
      [] OTHER -> "undefined"

\* value !== undefined
IsTruthyValue(v) ==
    \/ v.type = "number" /\ v.num # 0
    \/ v.type = "string" /\ v.str # ""
    \/ v.type = "boolean" /\ v.flag
IsDefined(v) == v.type # "undefined"

\* Object.entries(query).forEach(...): the parameters appended for the keys
\* QueryKeys[i..]
RECURSIVE AppendParams(_, _, _)
AppendParams(query, i, params) ==
    IF i > Len(QueryKeys) THEN params
    ELSE LET key == QueryKeys[i] IN
         IF key \in DOMAIN query /\ IsDefined(query[key])
         THEN AppendParams(query, i + 1, Append(params, <<key, StringOf(query[key])>>))
         ELSE AppendParams(query, i + 1, params)

\* buildURL(path, query); hasQuery is FALSE when query is undefined
BuildURLResult(path, hasQuery, query) ==
    LET u == ResolveURL(StripLeadingSlash(path), baseURL) IN
    IF hasQuery THEN URL(u.host, u.segs, AppendParams(query, 1, u.params)) ELSE u

NoBuild ==
    [called |-> FALSE, path |-> [lead |-> 0, segs |-> <<>>], hasQuery |-> FALSE,
     query |-> NoQuery, url |-> URL("", <<>>, <<>>)]

\* new HttpClient(baseURL, ...)
InitURL ==
    /\ configBase \in BaseChoices
    /\ baseURL = StripTrailingSlash(configBase)
    /\ built = NoBuild

\* a call of buildURL, made at the start of request() and of stream()
BuildURL(path, hasQuery, query) ==
    /\ ~hasQuery => query = NoQuery
    /\ built' = [called |-> TRUE, path |-> path, hasQuery |-> hasQuery,
                 query |-> query, url |-> BuildURLResult(path, hasQuery, query)]
    /\ UNCHANGED <<configBase, baseURL>>
    /\ UNCHANGED otherThanURL

NextURL ==
    \E path \in PathChoices, hasQuery \in BOOLEAN, query \in QueryChoices :
        BuildURL(path, hasQuery, query)

\* -------------------------------------------- CGateTracingCallbackHandler
\* the status a caller ends a session with (the default of endSession)
EndStatusChoices == {"completed"}

FlushIds == 1..MaxFlushes
ArrayIds == 0..MaxFlushes

\* a call of flush that has not been made yet
NoFlush ==
    [phase |-> "unused", status |-> "", viaEnd |-> FALSE, arr |-> -1, attempt |-> 0,
     wire |-> <<>>, known |-> 0, atStart |-> <<>>, ingests |-> 0, after |-> <<>>]

\* the afterAgent hook has not run
NoHook == [pc |-> "idle", flush |-> 0]

\* private events: TracingEvent[] = [], no flush called
InitTracing ==
    /\ tArrays = [a \in ArrayIds |-> <<>>]
    /\ tCur = 0
    /\ tRecorded = 0
    /\ tFlush = [f \in FlushIds |-> NoFlush]
    /\ tServer = <<>>
    /\ tKinds = <<>>
    /\ hook = NoHook

\* this.events
Buffer == tArrays[tCur]

\* this.events.push(event): the arrays after the next event is recorded
Pushed == [tArrays EXCEPT ![tCur] = Append(@, tRecorded + 1)]

\* this.events.length is not 0
HasEventsAlways(buf) == TRUE
HasEvents(buf) == Len(buf) # 0

\* the calls of flush not made yet; the next call takes the least of them
UnusedFlushes == {f \in FlushIds : tFlush[f].phase = "unused"}
NextFlush == CHOOSE f \in UnusedFlushes : \A g \in UnusedFlushes : f <= g

\* flush(status), run up to its first await, with the arrays `arrs` and
\* `recorded` events recorded: return at once on an empty buffer; otherwise build
\* the payload around this.events (the array itself, not a copy) and call
\* client.tracing.ingest, whose request serialises the payload and calls fetchImpl
FlushStart(arrs, recorded, status, viaEnd) ==
    /\ UnusedFlushes # {}
    /\ LET buf == arrs[tCur] IN
       tFlush' = [tFlush EXCEPT ![NextFlush] =
           IF HasEvents(buf)
           THEN [phase |-> "sent", status |-> status, viaEnd |-> viaEnd, arr |-> tCur,
                 attempt |-> 0, wire |-> buf, known |-> recorded, atStart |-> buf,
                 ingests |-> 1, after |-> <<>>]
           ELSE [phase |-> "done", status |-> status, viaEnd |-> viaEnd, arr |-> -1,
                 attempt |-> 0, wire |-> <<>>, known |-> recorded, atStart |-> buf,
                 ingests |-> 0, after |-> buf]]

\* handleChainStart / handleLLMStart / handleToolStart: recordEvent only
HandleStart ==
    /\ tRecorded < MaxEvents
    /\ tArrays' = Pushed
    /\ tRecorded' = tRecorded + 1
    /\ tKinds' = Append(tKinds, "start")
    /\ UNCHANGED <<autoFlush, tCur, tFlush, tServer, hook>>
    /\ UNCHANGED otherThanTracing

\* if (this.autoFlush)
AutoFlushIgnored == TRUE
AutoFlushOn == autoFlush

\* handleChainEnd / handleLLMEnd / handleToolEnd: recordEvent, then
\* flush('running') when autoFlush is on
HandleEnd ==
    /\ tRecorded < MaxEvents
    /\ tArrays' = Pushed
    /\ tRecorded' = tRecorded + 1
    /\ tKinds' = Append(tKinds, "end")
    /\ IF AutoFlushOn
       THEN FlushStart(Pushed, tRecorded + 1, "running", FALSE)
       ELSE UNCHANGED tFlush
    /\ UNCHANGED <<autoFlush, tCur, tServer, hook>>
    /\ UNCHANGED otherThanTracing

\* handleChainError / handleLLMError / handleToolError: recordEvent, flush('error')
HandleError ==
    /\ tRecorded < MaxEvents
    /\ tArrays' = Pushed
    /\ tRecorded' = tRecorded + 1
    /\ tKinds' = Append(tKinds, "error")
    /\ FlushStart(Pushed, tRecorded + 1, "error", FALSE)
    /\ UNCHANGED <<autoFlush, tCur, tServer, hook>>
    /\ UNCHANGED otherThanTracing

\* endSession(status): await this.flush(status)
EndSession(status) ==
    /\ FlushStart(tArrays, tRecorded, status, TRUE)
    /\ UNCHANGED <<autoFlush, tArrays, tCur, tRecorded, tServer, tKinds, hook>>
    /\ UNCHANGED otherThanTracing

\* the afterAgent hook of createCGateTracingMiddleware, up to its first await
\* that waits for the API: await handler.handleChainEnd(state, runId) records
\* the event and, with autoFlush on, awaits flush('running'); with autoFlush off
\* handleChainEnd returns at once and the hook goes on to flush('completed')
AfterAgent ==
    /\ hook.pc = "idle"
    /\ tRecorded < MaxEvents
    /\ tArrays' = Pushed
    /\ tRecorded' = tRecorded + 1
    /\ tKinds' = Append(tKinds, "end")
    /\ FlushStart(Pushed, tRecorded + 1,
                  IF AutoFlushOn THEN "running" ELSE "completed", FALSE)
    /\ hook' = [pc |-> IF AutoFlushOn THEN "end" ELSE "completed", flush |-> NextFlush]
    /\ UNCHANGED <<autoFlush, tCur, tServer>>
    /\ UNCHANGED otherThanTracing

\* the flush('running') that handleChainEnd awaits has resolved: the hook calls
\* await handler.flush('completed')
AfterAgentFlush ==
    /\ hook.pc = "end"
    /\ tFlush[hook.flush].phase = "done"
    /\ FlushStart(tArrays, tRecorded, "completed", FALSE)
    /\ hook' = [pc |-> "completed", flush |-> NextFlush]
    /\ UNCHANGED <<autoFlush, tArrays, tCur, tRecorded, tServer, tKinds>>
    /\ UNCHANGED otherThanTracing

\* the afterAgent hook has returned: its flush('completed') has resolved
AfterAgentReturned ==
    /\ hook.pc = "completed"
    /\ tFlush[hook.flush].phase = "done"

\* the tracing API receives the request of the current attempt of flush f and
\* accepts it
IngestDeliver(f) ==
    /\ tFlush[f].phase = "sent"
    /\ tFlush' = [tFlush EXCEPT ![f].phase = "received"]
    /\ tServer' = Append(tServer, [flush |-> f, status |-> tFlush[f].status,
                                   events |-> tFlush[f].wire])
    /\ UNCHANGED <<autoFlush, tArrays, tCur, tRecorded, tKinds, hook>>
    /\ UNCHANGED otherThanTracing

\* the 2xx response reaches the client: ingest resolves, this.events = []
IngestResolve(f) ==
    /\ tFlush[f].phase = "received"
    /\ tCur' = tCur + 1
    /\ tFlush' = [tFlush EXCEPT ![f].phase = "done", ![f].after = tArrays[tCur + 1]]
    /\ UNCHANGED <<autoFlush, tArrays, tRecorded, tServer, tKinds, hook>>
    /\ UNCHANGED otherThanTracing

\* the attempt of flush f fails with a network error before the API gets it:
\* request() rethrows on the last attempt and otherwise sleeps
IngestNetworkError(f) ==
    /\ tFlush[f].phase = "sent"
    /\ tFlush' = [tFlush EXCEPT ![f].phase =
           IF ShouldThrow(TypeError(tFlush[f].attempt), tFlush[f].attempt)
           THEN "rejected" ELSE "backoff"]
    /\ UNCHANGED <<autoFlush, tArrays, tCur, tRecorded, tServer, tKinds, hook>>
    /\ UNCHANGED otherThanTracing

\* the tracing API answers the attempt of flush f with a non-2xx status:
\* CGateAPIError, flush rejects and leaves this.events as it is
IngestAPIErrorClears(f) ==
    /\ tFlush[f].phase = "sent"
    /\ tFlush' = [tFlush EXCEPT ![f].phase = "rejected"]
    /\ tCur' = tCur + 1
    /\ UNCHANGED <<autoFlush, tArrays, tRecorded, tServer, tKinds, hook>>
    /\ UNCHANGED otherThanTracing
IngestAPIError(f) ==
    /\ tFlush[f].phase = "sent"
    /\ tFlush' = [tFlush EXCEPT ![f].phase = "rejected"]
    /\ UNCHANGED <<autoFlush, tArrays, tCur, tRecorded, tServer, tKinds, hook>>
    /\ UNCHANGED otherThanTracing

\* the backoff wait of flush f is over: the next attempt serialises the payload
\* again, with what the array it refers to holds now
IngestRetry(f) ==
    /\ tFlush[f].phase = "backoff"
    /\ tFlush' = [tFlush EXCEPT ![f].phase = "sent",
                                ![f].attempt = @ + 1,
                                ![f].wire = tArrays[tFlush[f].arr]]
    /\ UNCHANGED <<autoFlush, tArrays, tCur, tRecorded, tServer, tKinds, hook>>
    /\ UNCHANGED otherThanTracing

NextTracing ==
    \/ HandleStart
    \/ HandleEnd
    \/ HandleError
    \/ \E status \in EndStatusChoices : EndSession(status)
    \/ \E f \in FlushIds : IngestDeliver(f)
    \/ \E f \in FlushIds : IngestResolve(f)
    \/ \E f \in FlushIds : IngestNetworkError(f)
    \/ \E f \in FlushIds : IngestAPIError(f)
    \/ \E f \in FlushIds : IngestRetry(f)

\* one agent run under the middleware: beforeAgent / beforeModel record a start
\* event, afterModel records an end event, afterAgent ends the run
NextMiddleware ==
    \/ HandleStart
    \/ HandleEnd
    \/ AfterAgent
    \/ AfterAgentFlush
    \/ \E f \in FlushIds : IngestDeliver(f)
    \/ \E f \in FlushIds : IngestResolve(f)
    \/ \E f \in FlushIds : IngestNetworkError(f)
    \/ \E f \in FlushIds : IngestAPIError(f)
    \/ \E f \in FlushIds : IngestRetry(f)

\* ------------------------------- concurrent request calls on one client
\* The calls share the client's fields (read only) and the clock; the timeout
\* is longer than the horizon, so no timeout timer fires.
Calls == 1..NumCalls

InitPair ==
    /\ cpc = [c \in Calls |-> "idle"]
    /\ cattempt = [c \in Calls |-> 0]
    /\ csleep = [c \in Calls |-> -1]
    /\ clock = 0
    /\ cstarts = [c \in Calls |-> <<>>]
    /\ coutcomes = [c \in Calls |-> <<>>]
    /\ cends = [c \in Calls |-> <<>>]

\* attempt++ on the loop variable, a local of the call
NextAttemptShared(c) ==
    1 + (CHOOSE m \in {cattempt[d] : d \in Calls} : \A d \in Calls : cattempt[d] <= m)
NextAttempt(c) == cattempt[c] + 1

\* request(...) of call c runs up to await fetchImpl of attempt 0; the calls are
\* numbered in the order in which they are made
CallRequest(c) ==
    /\ cpc[c] = "idle"
    /\ c > 1 => cpc[c - 1] # "idle"
    /\ cpc' = [cpc EXCEPT ![c] = "fetching"]
    /\ cstarts' = [cstarts EXCEPT ![c] = Append(@, clock)]
    /\ UNCHANGED <<cattempt, csleep, clock, coutcomes, cends>>
    /\ UNCHANGED otherThanPair

\* fetchImpl of call c rejects with a network error: rethrow or sleep
CallNetworkError(c) ==
    /\ cpc[c] = "fetching"
    /\ coutcomes' = [coutcomes EXCEPT ![c] = Append(@, "network")]
    /\ cends' = [cends EXCEPT ![c] = Append(@, clock)]
    /\ IF ShouldThrow(TypeError(cattempt[c]), cattempt[c])
       THEN /\ cpc' = [cpc EXCEPT ![c] = "rejected"]
            /\ UNCHANGED csleep
       ELSE /\ cpc' = [cpc EXCEPT ![c] = "sleeping"]
            /\ csleep' = [csleep EXCEPT ![c] = clock + Backoff(cattempt[c])]
    /\ UNCHANGED <<cattempt, clock, cstarts>>
    /\ UNCHANGED otherThanPair

\* fetchImpl of call c resolves: a 2xx response resolves the call, any other
\* rejects it with CGateAPIError
CallResponse(c, ok) ==
    /\ cpc[c] = "fetching"
    /\ coutcomes' = [coutcomes EXCEPT ![c] = Append(@, IF ok THEN "ok" ELSE "non2xx")]
    /\ cends' = [cends EXCEPT ![c] = Append(@, clock)]
    /\ cpc' = [cpc EXCEPT ![c] = IF ok THEN "resolved" ELSE "rejected"]
    /\ UNCHANGED <<cattempt, csleep, clock, cstarts>>
    /\ UNCHANGED otherThanPair

\* the backoff timer of call c fires: its loop goes on with the next attempt
CallSleepResolve(c) ==
    /\ cpc[c] = "sleeping"
    /\ csleep[c] <= clock
    /\ cattempt' = [cattempt EXCEPT ![c] = NextAttempt(c)]
    /\ csleep' = [csleep EXCEPT ![c] = -1]
    /\ cpc' = [cpc EXCEPT ![c] = "fetching"]
    /\ cstarts' = [cstarts EXCEPT ![c] = Append(@, clock)]
    /\ UNCHANGED <<clock, coutcomes, cends>>
    /\ UNCHANGED otherThanPair

\* time passes while a call is under way; a timer that is due fires before
\* time passes
ClockTick ==
    /\ clock < MaxClock * TickMs
    /\ \E c \in Calls : cpc[c] \in {"fetching", "sleeping"}
    /\ \A c \in Calls : cpc[c] = "sleeping" => csleep[c] > clock
    /\ clock' = clock + TickMs
    /\ UNCHANGED <<cpc, cattempt, csleep, cstarts, coutcomes, cends>>
    /\ UNCHANGED otherThanPair

NextPair ==
    \/ \E c \in Calls : CallRequest(c)
    \/ \E c \in Calls : CallNetworkError(c)
    \/ \E c \in Calls, ok \in BOOLEAN : CallResponse(c, ok)
    \/ \E c \in Calls : CallSleepResolve(c)
    \/ ClockTick

\* a handler and a client on which nothing has been called
InitIdle ==
    /\ autoFlush = TRUE
    /\ InitTracing
    /\ InitPair

\* ------------------------------------------------ new CGateClient(options)
\* no URL (an unset field), options.baseURL absent, options.baseURL = ''
NoURL == URL("", <<>>, <<>>)
AbsentURL == URL(Undefined, <<>>, <<>>)
EmptyURL == URL("", <<"<empty string>">>, <<>>)

\* the options a client is constructed with
OptionChoices ==
    [apiKey : {Undefined, "", "test-key"},
     baseURL : {AbsentURL, EmptyURL} \cup BaseChoices,
     fetch : BOOLEAN]

\* !options.apiKey
ApiKeyMissingUndefinedOnly(o) == o.apiKey = Undefined
ApiKeyMissing(o) == o.apiKey = Undefined \/ o.apiKey = ""

\* options.baseURL || DEFAULT_BASE_URL
EffectiveBase(o) ==
    IF o.baseURL = AbsentURL \/ o.baseURL = EmptyURL THEN DefaultBaseURL ELSE o.baseURL

\* fetchImpl || globalThis.fetch is defined
FetchAvailable(o) == o.fetch \/ globalFetch

\* a client that has been constructed with the base URL configBase
InitConstructed ==
    /\ options = [apiKey |-> "test-key", baseURL |-> configBase, fetch |-> TRUE]
    /\ globalFetch = TRUE
    /\ client = "constructed"
    /\ ctorThrown = "none"
    /\ reported = NoURL
    /\ calls = 0

\* new CGateClient(options): throws Error without an API key, CGateError (from
\* the HttpClient constructor) without a fetch implementation
Construct ==
    /\ client = "none"
    /\ IF ApiKeyMissing(options)
       THEN /\ client' = "threw"
            /\ ctorThrown' = "Error"
            /\ UNCHANGED <<configBase, baseURL>>
       ELSE IF ~FetchAvailable(options)
       THEN /\ client' = "threw"
            /\ ctorThrown' = "CGateError"
            /\ UNCHANGED <<configBase, baseURL>>
       ELSE /\ client' = "constructed"
            /\ configBase' = EffectiveBase(options)
            /\ baseURL' = StripTrailingSlash(EffectiveBase(options))
            /\ UNCHANGED ctorThrown
    /\ UNCHANGED <<built, options, globalFetch, reported, calls>>
    /\ UNCHANGED otherThanClient

\* client.getBaseURL(): return this.http['baseURL']
GetBaseURL ==
    /\ client = "constructed"
    /\ reported' = baseURL
    /\ UNCHANGED <<options, globalFetch, client, ctorThrown, calls>>
    /\ UNCHANGED urlVars
    /\ UNCHANGED otherThanClient

\* a call of a resource method on the client: buildURL, then fetchImpl
ClientRequest(path) ==
    /\ client = "constructed"
    /\ calls < MaxCalls
    /\ calls' = calls + 1
    /\ built' = [called |-> TRUE, path |-> path, hasQuery |-> FALSE,
                 query |-> NoQuery, url |-> BuildURLResult(path, FALSE, NoQuery)]
    /\ UNCHANGED <<configBase, baseURL>>
    /\ UNCHANGED <<options, globalFetch, client, ctorThrown, reported>>
    /\ UNCHANGED otherThanClient

\* ------------------------------------------------------ HttpClient.request
\* no request call has been made
InitRequestIdle ==
    /\ signalAborted = FALSE
    /\ pc = "idle"
    /\ attempt = 0
    /\ lastError = NoError
    /\ thrown = NoError
    /\ inflight = {}
    /\ timers = {}
    /\ aborted = {}
    /\ sleep = NoSleep
    /\ now = 0
    /\ starts = <<>>
    /\ outcomes = <<>>
    /\ waits = <<>>
    /\ response = NoResponse
    /\ raised = NoAPIError

InitRequest ==
    /\ maxRetries \in RetryChoices
    /\ timeout \in TimeoutChoices
    /\ hasSignal \in BOOLEAN
    /\ InitRequestIdle

\* a stream sequence that has not been started
InitStream ==
    /\ spc = "idle"
    /\ sFetches = 0
    /\ sResponse = NoResponse
    /\ sThrown = NoAPIError
    /\ fullBody = <<>>
    /\ wire = <<>>
    /\ pending = <<>>
    /\ buffer = <<>>
    /\ lines = <<>>
    /\ yielded = <<>>
    /\ locked = FALSE
    /\ processed = <<>>
    /\ viaCreate = FALSE
    /\ callerSignal = "none"
    /\ fetchObserves = FALSE
    /\ yieldedAtAbort = -1
    /\ injectedAt = -1

\* a client with the default base URL, no call made yet
Init ==
    /\ InitRequest
    /\ InitStream
    /\ InitURL
    /\ configBase = DefaultBaseURL
    /\ InitConstructed
    /\ InitIdle

\* catch (error) { ... } of attempt k: rethrow, or start the backoff sleep
Catch(k, error) ==
    /\ lastError' = error
    /\ IF ShouldThrow(error, k)
       THEN /\ pc' = "rejected"
            /\ thrown' = error
            /\ sleep' = NoSleep
       ELSE /\ pc' = "sleeping"
            /\ thrown' = thrown
            /\ sleep' = [start |-> now, due |-> now + Backoff(k)]

\* one pass through the head of the loop body for attempt k: new controller,
\* setTimeout, fetchImpl called.  `tm` is the timer set before the pass.  A
\* fetch handed an already aborted signal rejects with AbortError at once.
BeginAttempt(k, tm) ==
    /\ timers' = tm \cup {[id |-> k, due |-> now + timeout]}
    /\ starts' = Append(starts, now)
    /\ IF SignalIsAborted(k)
       THEN /\ inflight' = {}
            /\ outcomes' = Append(outcomes, "cancel")
            /\ Catch(k, AbortError(k))
       ELSE /\ inflight' = inflight \cup {k}
            /\ outcomes' = outcomes
            /\ pc' = "fetching"
            /\ sleep' = NoSleep
            /\ UNCHANGED <<lastError, thrown>>

\* the loop test for index k, then the loop body or the throw after the loop
LoopFrom(k, tm) ==
    /\ attempt' = k
    /\ IF k <= maxRetries
       THEN BeginAttempt(k, tm)
       ELSE /\ pc' = "rejected"
            /\ thrown' = IF lastError # NoError THEN lastError ELSE CGateError(k)
            /\ sleep' = NoSleep
            /\ UNCHANGED <<lastError, inflight, timers, starts, outcomes>>

\* request(method, path, options) is called
Request ==
    /\ pc = "idle"
    /\ LoopFrom(0, timers)
    /\ UNCHANGED <<maxRetries, timeout, hasSignal, signalAborted, aborted, now, waits,
                   response, raised>>
    /\ UNCHANGED otherThanRequest

\* fetchImpl resolves with a response; clearTimeout(timeoutId); response.ok
FetchResponse(ok) ==
    /\ pc = "fetching"
    /\ inflight' = inflight \ {attempt}
    /\ timers' = {t \in timers : t.id # attempt}
    /\ outcomes' = Append(outcomes, IF ok THEN "ok" ELSE "non2xx")
    /\ pc' = IF ok THEN "body" ELSE "errorBody"
    /\ response' \in (IF ok THEN {OkResponse} ELSE ErrorResponses)
    /\ UNCHANGED <<maxRetries, timeout, hasSignal, signalAborted, attempt, lastError,
                   thrown, aborted, sleep, now, starts, waits, raised>>
    /\ UNCHANGED otherThanRequest

\* fetchImpl rejects with a network failure (TypeError); the timer stays armed
FetchNetworkError ==
    /\ pc = "fetching"
    /\ inflight' = inflight \ {attempt}
    /\ outcomes' = Append(outcomes, "network")
    /\ Catch(attempt, TypeError(attempt))
    /\ UNCHANGED <<maxRetries, timeout, hasSignal, signalAborted, attempt, timers,
                   aborted, now, starts, waits, response, raised>>
    /\ UNCHANGED otherThanRequest

\* a timeout timer fires: controller.abort() of the attempt that armed it
TimerFire ==
    \E t \in timers :
        /\ t.due <= now
        /\ timers' = timers \ {t}
        /\ aborted' = aborted \cup {t.id}
        /\ IF pc = "fetching" /\ t.id = attempt /\ FetchSignal = "controller"
           THEN /\ inflight' = inflight \ {attempt}
                /\ outcomes' = Append(outcomes, "timeout")
                /\ Catch(attempt, AbortError(attempt))
           ELSE UNCHANGED <<inflight, outcomes, pc, lastError, thrown, sleep>>
        /\ UNCHANGED <<maxRetries, timeout, hasSignal, signalAborted, attempt, now,
                       starts, waits, response, raised>>
        /\ UNCHANGED otherThanRequest

\* the caller aborts options.signal
SignalAbort ==
    /\ hasSignal
    /\ ~signalAborted
    /\ signalAborted' = TRUE
    /\ CASE pc = "fetching" /\ FetchSignal = "external" ->
                /\ inflight' = inflight \ {attempt}
                /\ outcomes' = Append(outcomes, "cancel")
                /\ Catch(attempt, AbortError(attempt))
         [] pc = "body" /\ FetchSignal = "external" ->
                /\ Catch(attempt, AbortError(attempt))
                /\ UNCHANGED <<inflight, outcomes>>
         [] pc = "errorBody" /\ FetchSignal = "external" ->
                /\ Catch(attempt, CGateAPIError(attempt))
                /\ UNCHANGED <<inflight, outcomes>>
         [] OTHER ->
                UNCHANGED <<inflight, outcomes, pc, lastError, thrown, sleep>>
    /\ raised' = IF pc = "errorBody" /\ FetchSignal = "external"
                 THEN APIErrorFor(response, FALSE)
                 ELSE raised
    /\ UNCHANGED <<maxRetries, timeout, hasSignal, attempt, timers, aborted, now,
                   starts, waits, response>>
    /\ UNCHANGED otherThanRequest

\* await response.json() of a 2xx response settles
BodyJson(valid) ==
    /\ pc = "body"
    /\ IF valid
       THEN /\ pc' = "resolved"
            /\ UNCHANGED <<lastError, thrown, sleep>>
       ELSE Catch(attempt, SyntaxError(attempt))
    /\ UNCHANGED <<maxRetries, timeout, hasSignal, signalAborted, attempt, inflight,
                   timers, aborted, now, starts, outcomes, waits, response, raised>>
    /\ UNCHANGED otherThanRequest

\* handleErrorResponse: the body is read (parsed or not), CGateAPIError is thrown
HandleErrorResponse ==
    /\ pc = "errorBody"
    /\ Catch(attempt, CGateAPIError(attempt))
    /\ raised' = APIErrorFor(response, BodyParses(response))
    /\ UNCHANGED <<maxRetries, timeout, hasSignal, signalAborted, attempt, inflight,
                   timers, aborted, now, starts, outcomes, waits, response>>
    /\ UNCHANGED otherThanRequest

\* the backoff timer fires: sleep() resolves, attempt++, next loop pass
SleepResolve ==
    /\ SleepElapsed
    /\ waits' = Append(waits, now - sleep.start)
    /\ LoopFrom(attempt + 1, timers)
    /\ UNCHANGED <<maxRetries, timeout, hasSignal, signalAborted, aborted, now,
                   response, raised>>
    /\ UNCHANGED otherThanRequest

\* time passes while no timer is due
Tick ==
    /\ now < MaxTime * TickMs
    /\ \A t \in timers : t.due > now
    /\ ~(pc = "sleeping" /\ sleep.due <= now)
    /\ now' = now + TickMs
    /\ UNCHANGED <<maxRetries, timeout, hasSignal, signalAborted, pc, attempt,
                   lastError, thrown, inflight, timers, aborted, sleep, starts,
                   outcomes, waits, response, raised>>
    /\ UNCHANGED otherThanRequest

Next ==
    \/ Request
    \/ \E ok \in BOOLEAN : FetchResponse(ok)
    \/ FetchNetworkError
    \/ TimerFire
    \/ SignalAbort
    \/ \E valid \in BOOLEAN : BodyJson(valid)
    \/ HandleErrorResponse
    \/ SleepResolve
    \/ Tick

Spec == Init /\ [][Next]_vars

Settled == pc \in {"resolved", "rejected"}

\* ------------------------------------------------------- HttpClient.stream
\* Text is a sequence of characters, the body a sequence of bytes.  An ASCII
\* character is one byte (written as the character); U+00E9 is the two bytes
\* 0xC3 0xA9; U+FFFD is what the decoder emits for a malformed sequence.
LF == "\n"
Whitespace == {" ", "\t", "\r", LF}
DataPrefix == <<"d", "a", "t", "a", ":", " ">>
DoneSentinel == <<"[", "D", "O", "N", "E", "]">>

RECURSIVE Encode(_)
Encode(chars) ==
    IF chars = <<>> THEN <<>>
    ELSE (IF Head(chars) = "U+00E9" THEN <<"0xC3", "0xA9">> ELSE <<Head(chars)>>)
         \o Encode(Tail(chars))

\* decoder.decode(value, { stream: true }): `held` is the incomplete sequence
\* carried over from the previous call; the result is the decoded characters
\* and the bytes held back for the next call
RECURSIVE DecodeFrom(_, _, _)
DecodeFrom(held, bytes, out) ==
    IF bytes = <<>> THEN [chars |-> out, held |-> held]
    ELSE LET b == Head(bytes) IN
         IF held = <<"0xC3">>
         THEN (IF b = "0xA9"
               THEN DecodeFrom(<<>>, Tail(bytes), Append(out, "U+00E9"))
               ELSE DecodeFrom(<<>>, bytes, Append(out, "U+FFFD")))
         ELSE IF b = "0xC3" THEN DecodeFrom(<<"0xC3">>, Tail(bytes), out)
         ELSE IF b = "0xA9" THEN DecodeFrom(<<>>, Tail(bytes), Append(out, "U+FFFD"))
         ELSE DecodeFrom(<<>>, Tail(bytes), Append(out, b))

\* decode without the stream option: an incomplete sequence at the end of the
\* chunk is flushed as U+FFFD and nothing is carried over
DecodeChunkNoStream(held, bytes) ==
    LET r == DecodeFrom(<<>>, bytes, <<>>) IN
    [chars |-> IF r.held = <<>> THEN r.chars ELSE Append(r.chars, "U+FFFD"),
     held |-> <<>>]
DecodeChunk(held, bytes) == DecodeFrom(held, bytes, <<>>)

\* buffer.split('\n'): the segments between line feeds, the last one being the
\* text after the last line feed
RECURSIVE SplitFrom(_, _, _)
SplitFrom(text, cur, out) ==
    IF text = <<>> THEN Append(out, cur)
    ELSE IF Head(text) = LF THEN SplitFrom(Tail(text), <<>>, Append(out, cur))
    ELSE SplitFrom(Tail(text), Append(cur, Head(text)), out)
Split(text) == SplitFrom(text, <<>>, <<>>)

\* lines.pop()
Front(segs) == SubSeq(segs, 1, Len(segs) - 1)
Last(segs) == segs[Len(segs)]

\* line.trim()
RECURSIVE TrimStart(_)
TrimStart(t) ==
    IF t # <<>> /\ Head(t) \in Whitespace THEN TrimStart(Tail(t)) ELSE t
RECURSIVE TrimEnd(_)
TrimEnd(t) ==
    IF t # <<>> /\ Last(t) \in Whitespace THEN TrimEnd(Front(t)) ELSE t
Trim(t) == TrimEnd(TrimStart(t))

\* trimmed.startsWith(prefix)
StartsWith(t, prefix) ==
    Len(t) >= Len(prefix) /\ SubSeq(t, 1, Len(prefix)) = prefix

\* trimmed.slice(6)
Slice6(t) == SubSeq(t, 7, Len(t))

\* data === '[DONE]'
IsDoneNever(data) == FALSE
IsDone(data) == data = DoneSentinel

\* JSON.parse(data) does not throw.  The JSON texts of the model are one digit
\* and a string literal without escapes.
Digits == {"1", "2"}
IsStringLiteral(data) ==
    /\ Len(data) >= 2
    /\ Head(data) = "\""
    /\ Last(data) = "\""
    /\ \A i \in 2..(Len(data) - 1) : data[i] \notin {"\"", "\\", LF}
JsonValid(data) ==
    \/ Len(data) = 1 /\ data[1] \in Digits
    \/ IsStringLiteral(data)

\* JSON.parse(data): a number, or the characters of a string
JsonParse(data) ==
    IF IsStringLiteral(data)
    THEN [type |-> "string", num |-> 0, str |-> SubSeq(data, 2, Len(data) - 1)]
    ELSE [type |-> "number", num |-> (IF data = <<"1">> THEN 1 ELSE 2), str |-> <<>>]
NoValue == [type |-> "none", num |-> 0, str |-> <<>>]

\* The for loop over `ls` up to its next suspension or exit: "yield" (a value
\* is handed to the consumer, `rest` is still to be processed), "return"
\* ([DONE] was met) or "read" (all lines processed, back to reader.read()).
\* `seen` collects the lines processed.
RECURSIVE RunLinesStopAtBad(_, _)
RunLinesStopAtBad(ls, seen) ==
    IF ls = <<>>
    THEN [kind |-> "read", value |-> NoValue, rest |-> <<>>, seen |-> seen]
    ELSE LET trimmed == Trim(Head(ls))
             data == Slice6(trimmed)
             seen1 == Append(seen, Head(ls))
         IN  IF StartsWith(trimmed, DataPrefix)
             THEN IF IsDone(data) \/ ~JsonValid(data)
                  THEN [kind |-> "return", value |-> NoValue, rest |-> Tail(ls),
                        seen |-> seen1]
                  ELSE [kind |-> "yield", value |-> JsonParse(data),
                        rest |-> Tail(ls), seen |-> seen1]
             ELSE RunLinesStopAtBad(Tail(ls), seen1)
RECURSIVE RunLinesKeepLine(_, _)
RunLinesKeepLine(ls, seen) ==
    IF ls = <<>>
    THEN [kind |-> "read", value |-> NoValue, rest |-> <<>>, seen |-> seen]
    ELSE LET trimmed == Trim(Head(ls))
             data == Slice6(trimmed)
             seen1 == Append(seen, Head(ls))
         IN  IF StartsWith(trimmed, DataPrefix)
             THEN IF IsDone(data)
                  THEN [kind |-> "return", value |-> NoValue, rest |-> Tail(ls),
                        seen |-> seen1]
                  ELSE IF JsonValid(data)
                       THEN [kind |-> "yield", value |-> JsonParse(data),
                             rest |-> IF Len(seen) = 0 THEN ls ELSE Tail(ls),
                             seen |-> seen1]
                       ELSE RunLinesKeepLine(Tail(ls), seen1)
             ELSE RunLinesKeepLine(Tail(ls), seen1)
RECURSIVE RunLines(_, _)
RunLines(ls, seen) ==
    IF ls = <<>>
    THEN [kind |-> "read", value |-> NoValue, rest |-> <<>>, seen |-> seen]
    ELSE LET trimmed == Trim(Head(ls))
             data == Slice6(trimmed)
             seen1 == Append(seen, Head(ls))
         IN  IF StartsWith(trimmed, DataPrefix)
             THEN IF IsDone(data)
                  THEN [kind |-> "return", value |-> NoValue, rest |-> Tail(ls),
                        seen |-> seen1]
                  ELSE IF JsonValid(data)
                       THEN [kind |-> "yield", value |-> JsonParse(data),
                             rest |-> Tail(ls), seen |-> seen1]
                       ELSE RunLines(Tail(ls), seen1)
             ELSE RunLines(Tail(ls), seen1)

\* errors a stream sequence can end with, besides a CGateAPIError
StreamError(name, message) ==
    [name |-> name, message |-> message, statusCode |-> 0,
     errorType |-> Undefined, response |-> NoBody]

\* response bodies of a streaming call: up to MaxLines lines, each ended by a
\* line feed except possibly the last
LineChoices ==
    {DataPrefix \o <<"1">>,
     DataPrefix \o <<"\"", "U+00E9", "\"">>,
     DataPrefix \o <<"2", "\r">>,
     DataPrefix \o <<"x">>,
     DataPrefix \o DoneSentinel,
     <<":">>,
     <<>>}
RECURSIVE JoinLines(_, _)
JoinLines(ls, terminated) ==
    IF ls = <<>> THEN <<>>
    ELSE IF Len(ls) = 1
         THEN Head(ls) \o (IF terminated THEN <<LF>> ELSE <<>>)
         ELSE Head(ls) \o <<LF>> \o JoinLines(Tail(ls), terminated)
StreamBodies ==
    {Encode(JoinLines(ls, terminated)) :
        ls \in UNION {[1..n -> LineChoices] : n \in 0..MaxLines},
        terminated \in BOOLEAN}

\* the generator continues with the outcome `r` of RunLines
Continue(r) ==
    /\ processed' = r.seen
    /\ lines' = r.rest
    /\ CASE r.kind = "yield" ->
                /\ spc' = "yielded"
                /\ yielded' = Append(yielded, r.value)
                /\ UNCHANGED locked
         [] r.kind = "return" ->
                /\ spc' = "done"
                /\ locked' = FALSE
                /\ UNCHANGED yielded
         [] OTHER ->
                /\ spc' = "reading"
                /\ UNCHANGED <<yielded, locked>>

\* no request call has been made and nothing has happened to its environment
RequestUntouched == pc = "idle" /\ now = 0 /\ ~signalAborted

\* stream(method, path, options) runs up to await fetchImpl once the consumer
\* asks for the first value; `given` tells whether options.signal is set, and
\* fetchImpl gets `signal: options.signal`
StreamStart(given) ==
    /\ RequestUntouched
    /\ spc = "idle"
    /\ spc' = "fetching"
    /\ sFetches' = sFetches + 1
    /\ fetchObserves' = given
    /\ UNCHANGED <<sResponse, sThrown, fullBody, wire, pending, buffer, lines,
                   yielded, locked, processed, yieldedAtAbort, injectedAt>>
    /\ UNCHANGED otherThanStream

\* a caller of HttpClient.stream, with or without a signal in its options
StreamCall(sig) ==
    /\ StreamStart(sig)
    /\ viaCreate' = FALSE
    /\ callerSignal' = IF sig THEN "live" ELSE "none"

\* chat.completions.create({..., stream: true}, {signal}): create has one
\* parameter and calls http.stream with {body: params}, so no signal reaches it
ChatCreate ==
    /\ StreamStart(FALSE)
    /\ viaCreate' = TRUE
    /\ callerSignal' = "live"

\* the signal the caller aborted is the one fetchImpl observes
Cancelled == fetchObserves /\ callerSignal = "aborted"

\* the caller aborts its signal after the call was made: a pending fetchImpl
\* rejects with AbortError, a pending read of an error body fails
StreamAbort ==
    /\ spc \in {"fetching", "errorBody", "reading", "yielded"}
    /\ callerSignal = "live"
    /\ callerSignal' = "aborted"
    /\ yieldedAtAbort' = Len(yielded)
    /\ UNCHANGED injectedAt
    /\ IF fetchObserves /\ spc = "fetching"
       THEN /\ spc' = "thrown"
            /\ sThrown' = StreamError("AbortError", "This operation was aborted")
       ELSE IF fetchObserves /\ spc = "errorBody"
       THEN /\ spc' = "thrown"
            /\ sThrown' = APIErrorFor(sResponse, FALSE)
       ELSE UNCHANGED <<spc, sThrown>>
    /\ UNCHANGED <<sFetches, sResponse, fullBody, wire, pending, buffer, lines,
                   yielded, locked, processed, viaCreate, fetchObserves>>
    /\ UNCHANGED otherThanStream

\* fetchImpl rejects (network failure): the error propagates, no retry
StreamFetchRejectRetry ==
    /\ spc = "fetching"
    /\ sFetches' = sFetches + 1
    /\ UNCHANGED <<spc, sResponse, sThrown, fullBody, wire, pending, buffer, lines,
                   yielded, locked, processed, viaCreate,
                   callerSignal, fetchObserves, yieldedAtAbort, injectedAt>>
    /\ UNCHANGED otherThanStream
StreamFetchReject ==
    /\ spc = "fetching"
    /\ spc' = "thrown"
    /\ sThrown' = StreamError("TypeError", "fetch failed")
    /\ UNCHANGED <<sFetches, sResponse, fullBody, wire, pending, buffer, lines,
                   yielded, locked, processed, viaCreate,
                   callerSignal, fetchObserves, yieldedAtAbort, injectedAt>>
    /\ UNCHANGED otherThanStream

\* fetchImpl resolves with a non-2xx response: await handleErrorResponse
StreamErrorResponse(r) ==
    /\ spc = "fetching"
    /\ spc' = "errorBody"
    /\ sResponse' = r
    /\ UNCHANGED <<sFetches, sThrown, fullBody, wire, pending, buffer, lines,
                   yielded, locked, processed, viaCreate,
                   callerSignal, fetchObserves, yieldedAtAbort, injectedAt>>
    /\ UNCHANGED otherThanStream

\* handleErrorResponse has read the body and throws
StreamHandleErrorResponse ==
    /\ spc = "errorBody"
    /\ spc' = "thrown"
    /\ sThrown' = APIErrorFor(sResponse, BodyParses(sResponse))
    /\ UNCHANGED <<sFetches, sResponse, fullBody, wire, pending, buffer, lines,
                   yielded, locked, processed, viaCreate,
                   callerSignal, fetchObserves, yieldedAtAbort, injectedAt>>
    /\ UNCHANGED otherThanStream

\* fetchImpl resolves with a 2xx response without a body
StreamNullBody ==
    /\ spc = "fetching"
    /\ spc' = "thrown"
    /\ sResponse' = OkResponse
    /\ sThrown' = StreamError("CGateError", "Response body is null")
    /\ UNCHANGED <<sFetches, fullBody, wire, pending, buffer, lines, yielded, locked,
                   processed, viaCreate, callerSignal, fetchObserves, yieldedAtAbort, injectedAt>>
    /\ UNCHANGED otherThanStream

\* fetchImpl resolves with a 2xx response: getReader(), first reader.read()
StreamOkResponse(bytes) ==
    /\ spc = "fetching"
    /\ spc' = "reading"
    /\ sResponse' = OkResponse
    /\ fullBody' = bytes
    /\ wire' = bytes
    /\ locked' = TRUE
    /\ UNCHANGED <<sFetches, sThrown, pending, buffer, lines, yielded,
                   processed, viaCreate, callerSignal, fetchObserves, yieldedAtAbort, injectedAt>>
    /\ UNCHANGED otherThanStream

\* reader.read() resolves with a chunk of n bytes: decode, split, run the lines
StreamRead(n) ==
    /\ spc = "reading"
    /\ ~Cancelled
    /\ n \in 1..Len(wire)
    /\ LET chunk == SubSeq(wire, 1, n)
           dec == DecodeChunk(pending, chunk)
           segs == Split(buffer \o dec.chars)
       IN  /\ wire' = SubSeq(wire, n + 1, Len(wire))
           /\ pending' = dec.held
           /\ buffer' = Last(segs)
           /\ Continue(RunLines(Front(segs), processed))
    /\ UNCHANGED <<sFetches, sResponse, sThrown, fullBody, viaCreate, callerSignal,
                   fetchObserves, yieldedAtAbort, injectedAt>>
    /\ UNCHANGED otherThanStream

\* reader.read() resolves with done: break, finally releaseLock()
StreamReadDone ==
    /\ spc = "reading"
    /\ ~Cancelled
    /\ wire = <<>>
    /\ spc' = "done"
    /\ locked' = FALSE
    /\ UNCHANGED <<sFetches, sResponse, sThrown, fullBody, wire, pending, buffer,
                   lines, yielded,
                   processed, viaCreate, callerSignal, fetchObserves, yieldedAtAbort, injectedAt>>
    /\ UNCHANGED otherThanStream

\* reader.read() rejects (the connection broke): finally releaseLock(), throw
StreamReadError ==
    /\ spc = "reading"
    /\ ~Cancelled
    /\ spc' = "thrown"
    /\ sThrown' = StreamError("TypeError", "terminated")
    /\ locked' = FALSE
    /\ UNCHANGED <<sFetches, sResponse, fullBody, wire, pending, buffer, lines, yielded,
                   processed, viaCreate, callerSignal, fetchObserves, yieldedAtAbort, injectedAt>>
    /\ UNCHANGED otherThanStream

\* the consumer asks for the next value: the for loop resumes after the yield
StreamResume ==
    /\ spc = "yielded"
    /\ Continue(RunLines(lines, processed))
    /\ UNCHANGED <<sFetches, sResponse, sThrown, fullBody, wire, pending, buffer,
                   viaCreate, callerSignal, fetchObserves, yieldedAtAbort, injectedAt>>
    /\ UNCHANGED otherThanStream

\* the consumer calls throw(error) on the generator suspended at the yield: the
\* error is raised at the yield expression, which stands inside
\* try { yield JSON.parse(data) } catch (e) { console.warn(...) }, so the catch
\* takes it and the for loop goes on with the next line
StreamThrow ==
    /\ spc = "yielded"
    /\ injectedAt = -1
    /\ injectedAt' = Len(yielded)
    /\ Continue(RunLines(lines, processed))
    /\ UNCHANGED <<sFetches, sResponse, sThrown, fullBody, wire, pending, buffer,
                   viaCreate, callerSignal, fetchObserves, yieldedAtAbort>>
    /\ UNCHANGED otherThanStream

\* reader.read() rejects because the signal fetchImpl observes has aborted:
\* finally releaseLock(), throw
StreamReadAbort ==
    /\ spc = "reading"
    /\ Cancelled
    /\ spc' = "thrown"
    /\ sThrown' = StreamError("AbortError", "This operation was aborted")
    /\ locked' = FALSE
    /\ UNCHANGED <<sFetches, sResponse, fullBody, wire, pending, buffer, lines,
                   yielded, processed, viaCreate, callerSignal, fetchObserves,
                   yieldedAtAbort, injectedAt>>
    /\ UNCHANGED otherThanStream

\* the consumer leaves its loop early: return() on the generator suspended at
\* the yield runs the finally block
StreamCloseNoFinally ==
    /\ spc = "yielded"
    /\ spc' = "closed"
    /\ UNCHANGED <<sFetches, sResponse, sThrown, fullBody, wire, pending, buffer,
                   lines, yielded, locked, processed, viaCreate, callerSignal,
                   fetchObserves, yieldedAtAbort, injectedAt>>
    /\ UNCHANGED otherThanStream
StreamClose ==
    /\ spc = "yielded"
    /\ spc' = "closed"
    /\ locked' = FALSE
    /\ UNCHANGED <<sFetches, sResponse, sThrown, fullBody, wire, pending, buffer,
                   lines, yielded,
                   processed, viaCreate, callerSignal, fetchObserves, yieldedAtAbort, injectedAt>>
    /\ UNCHANGED otherThanStream

\* One client with a fixed configuration on which one call is made, either a
\* request call or a stream sequence.
InitClient ==
    /\ Init
    /\ maxRetries = 1
    /\ timeout = TickMs

NextClient ==
    \/ spc = "idle" /\ Request
    \/ spc = "idle" /\ \E ok \in BOOLEAN : FetchResponse(ok)
    \/ spc = "idle" /\ FetchNetworkError
    \/ spc = "idle" /\ TimerFire
    \/ spc = "idle" /\ SignalAbort
    \/ spc = "idle" /\ \E valid \in BOOLEAN : BodyJson(valid)
    \/ spc = "idle" /\ HandleErrorResponse
    \/ spc = "idle" /\ SleepResolve
    \/ spc = "idle" /\ Tick
    \/ StreamCall(FALSE)
    \/ StreamFetchReject
    \/ \E r \in ErrorResponses : StreamErrorResponse(r)
    \/ StreamHandleErrorResponse
    \/ StreamNullBody
    \/ \E bytes \in StreamBodies : StreamOkResponse(bytes)
    \/ \E n \in 1..Len(wire) : StreamRead(n)
    \/ StreamReadDone
    \/ StreamReadError
    \/ StreamResume
    \/ StreamClose

SpecClient == InitClient /\ [][NextClient]_vars

\* One request call without options.signal, on an event loop whose timers fire:
\* time passes while a setTimeout is pending, a due timeout timer runs its
\* callback and a due sleep resolves.  What the server does (answer, fail, send
\* the body) is under no fairness: it may never happen.
InitLive ==
    /\ InitClient
    /\ ~hasSignal

TimePasses ==
    /\ timers # {} \/ pc = "sleeping"
    /\ Tick

NextLive ==
    \/ Request
    \/ \E ok \in BOOLEAN : FetchResponse(ok)
    \/ FetchNetworkError
    \/ TimerFire
    \/ \E valid \in BOOLEAN : BodyJson(valid)
    \/ HandleErrorResponse
    \/ SleepResolve
    \/ TimePasses

SpecLive ==
    /\ InitLive
    /\ [][NextLive]_vars
    /\ WF_vars(TimePasses)
    /\ WF_vars(TimerFire)
    /\ WF_vars(SleepResolve)

\* One stream sequence whose caller holds an AbortController, made by
\* http.stream with the signal in its options or by chat.completions.create;
\* the bodies are those made of the lines ChatLineChoices.
ChatLineChoices ==
    {DataPrefix \o <<"1">>, DataPrefix \o <<"2", "\r">>, DataPrefix \o DoneSentinel}
ChatBodies ==
    {Encode(JoinLines(ls, terminated)) :
        ls \in UNION {[1..n -> ChatLineChoices] : n \in 0..MaxLines},
        terminated \in BOOLEAN}

NextChat ==
    \/ StreamCall(TRUE)
    \/ ChatCreate
    \/ StreamAbort
    \/ StreamFetchReject
    \/ \E r \in ErrorResponses : StreamErrorResponse(r)
    \/ StreamHandleErrorResponse
    \/ StreamNullBody
    \/ \E bytes \in ChatBodies : StreamOkResponse(bytes)
    \/ \E n \in 1..Len(wire) : StreamRead(n)
    \/ StreamReadDone
    \/ StreamReadError
    \/ StreamReadAbort
    \/ StreamResume
    \/ StreamThrow
    \/ StreamClose

InitChat ==
    /\ InitClient
    /\ ~hasSignal

SpecChat == InitChat /\ [][NextChat]_vars

\* Clients with any of the base URLs, on which buildURL is called.
InitBuild ==
    /\ InitRequest
    /\ maxRetries = 1
    /\ timeout = TickMs
    /\ ~hasSignal
    /\ InitStream
    /\ InitURL
    /\ InitConstructed
    /\ InitIdle

SpecURL == InitBuild /\ [][NextURL]_vars

\* Clients under construction: any options, then getBaseURL and calls on the
\* client that was constructed.
InitConstruct ==
    /\ InitRequest
    /\ maxRetries = 1
    /\ timeout = TickMs
    /\ ~hasSignal
    /\ InitStream
    /\ configBase = NoURL
    /\ baseURL = NoURL
    /\ built = NoBuild
    /\ options \in OptionChoices
    /\ globalFetch \in BOOLEAN
    /\ client = "none"
    /\ ctorThrown = "none"
    /\ reported = NoURL
    /\ calls = 0
    /\ InitIdle

NextConstruct ==
    \/ Construct
    \/ GetBaseURL
    \/ \E path \in PathChoices : ClientRequest(path)

SpecConstruct == InitConstruct /\ [][NextConstruct]_vars

\* One tracing handler, with autoFlush on or off, on a client with maxRetries = 1.
InitHandler ==
    /\ InitRequest
    /\ maxRetries = 1
    /\ timeout = TickMs
    /\ ~hasSignal
    /\ InitStream
    /\ InitURL
    /\ configBase = DefaultBaseURL
    /\ InitConstructed
    /\ autoFlush \in BOOLEAN
    /\ InitTracing
    /\ InitPair

SpecTracing == InitHandler /\ [][NextTracing]_vars

\* One agent run under the tracing middleware, with autoFlush on or off.
SpecMiddleware == InitHandler /\ [][NextMiddleware]_vars

\* Concurrent request calls on one client with maxRetries = 2 and a timeout
\* longer than the horizon.
InitCalls ==
    /\ maxRetries = 2
    /\ timeout = (MaxClock + 1) * TickMs
    /\ hasSignal = FALSE
    /\ InitRequestIdle
    /\ InitStream
    /\ InitURL
    /\ configBase = DefaultBaseURL
    /\ InitConstructed
    /\ autoFlush = TRUE
    /\ InitTracing
    /\ InitPair

SpecCalls == InitCalls /\ [][NextPair]_vars

\* ------------------------------------------------------------ properties

\* number of calls of fetchImpl made so far by the request call
Attempts == Len(starts)

\* every attempt so far ended in a network failure of fetchImpl
AllNetworkFailures == \A i \in 1..Len(outcomes) : outcomes[i] = "network"

RECURSIVE SumSeq(_)
SumSeq(s) == IF s = <<>> THEN 0 ELSE Head(s) + SumSeq(Tail(s))

\* C1: with maxRetries = N >= 0 and every attempt failing with a network error,
\* the call rejects only after exactly N+1 attempts, with the last attempt's error.
C1_RetryCount ==
    (pc = "rejected" /\ maxRetries >= 0 /\ AllNetworkFailures)
        => /\ Attempts = maxRetries + 1
           /\ Len(outcomes) = maxRetries + 1
           /\ thrown = TypeError(maxRetries)

C1_Witness ==
    /\ pc = "rejected"
    /\ maxRetries >= 2
    /\ AllNetworkFailures
    /\ Attempts = maxRetries + 1

\* C2: an attempt that received a non-2xx response is the last attempt of the
\* call: the call rejects with the CGateAPIError of that attempt, without a
\* backoff wait and without a further call of fetchImpl.
C2_APIErrorNoRetry ==
    \A i \in 1..Len(outcomes) :
        outcomes[i] = "non2xx"
            => /\ Attempts = i
               /\ pc \in {"errorBody", "rejected"}
               /\ sleep = NoSleep
               /\ Len(waits) = i - 1
               /\ pc = "rejected" => thrown = CGateAPIError(i - 1)

C2_Witness ==
    /\ pc = "rejected"
    /\ thrown = CGateAPIError(1)
    /\ maxRetries >= 2
    /\ outcomes = <<"network", "non2xx">>

\* C3 (as claimed): once the caller's signal has fired during a request call,
\* the call makes no further call of fetchImpl.
C3_NoAttemptAfterCancel ==
    [][(signalAborted /\ pc # "idle") => Len(starts') = Len(starts)]_vars

\* C4 (as claimed): an attempt ended by the internal timeout is retried unless
\* it was the last attempt allowed by maxRetries.
C4_TimeoutRetried ==
    \A i \in 1..Len(outcomes) :
        (outcomes[i] = "timeout" /\ i = Len(outcomes) /\ i <= maxRetries)
            => pc # "rejected"

\* C5 (as claimed): a rejected request call carries a CGateError or CGateAPIError.
C5_OnlySdkErrors ==
    pc = "rejected" => InstanceOfCGateError(thrown)

\* C6: without an external signal, an in-flight attempt has its timeout timer
\* armed for start + timeout and is never in flight after that time: the timer
\* aborts it.
C6_TimeoutAborts ==
    (~hasSignal /\ pc = "fetching")
        => /\ inflight = {attempt}
           /\ [id |-> attempt, due |-> starts[attempt + 1] + timeout] \in timers
           /\ now <= starts[attempt + 1] + timeout

C6_Witness ==
    /\ ~hasSignal
    /\ Len(outcomes) = attempt + 1
    /\ outcomes[attempt + 1] = "timeout"
    /\ lastError = AbortError(attempt)
    /\ now = starts[attempt + 1] + timeout
    /\ attempt \in aborted

\* C7 (as claimed): with an external signal supplied, the internal timeout
\* still aborts an attempt that is in flight when the timeout expires.
C7_TimeoutWithSignal ==
    (hasSignal /\ pc = "fetching") => now <= starts[attempt + 1] + timeout

\* C8 (as claimed): when the call has settled, no timeout timer is pending.
C8_NoTimerAfterSettle ==
    Settled => timers = {}

\* C9: the backoff wait after failed attempt k lasts 2^k seconds, the waits of
\* a call with N retries add up to 2^N - 1 seconds, and a rejected call has no
\* backoff wait pending after its final attempt.
C9_Backoff ==
    /\ \A i \in 1..Len(waits) : waits[i] = (2 ^ (i - 1)) * 1000
    /\ pc = "sleeping" => sleep.due - sleep.start = (2 ^ attempt) * 1000
    /\ Attempts > 0 /\ pc # "sleeping" =>
          /\ Len(waits) = Attempts - 1
          /\ SumSeq(waits) = ((2 ^ (Attempts - 1)) - 1) * 1000
    /\ Settled => sleep = NoSleep

C9_Witness ==
    /\ pc = "rejected"
    /\ Attempts = 3
    /\ waits = <<1000, 2000>>

\* C10: at most one attempt is in flight, and a further attempt starts only
\* when no attempt is in flight, the previous attempt has failed and the
\* backoff wait that followed it has fully elapsed.
C10_Sequential ==
    /\ [](Cardinality(inflight) <= 1)
    /\ [][(Len(starts') > Len(starts) /\ Len(starts) > 0)
            => /\ inflight = {}
               /\ pc = "sleeping"
               /\ lastError.attempt = Len(starts) - 1
               /\ sleep.start >= starts[Len(starts)]
               /\ now >= sleep.start + (2 ^ (Len(starts) - 1)) * 1000
               /\ Len(starts') = Len(starts) + 1]_vars

C10_Witness ==
    /\ pc = "fetching"
    /\ attempt = 2
    /\ inflight = {2}
    /\ Len(waits) = 2

\* the non-2xx responses handled so far, each with the error raised for it
RaisedErrors ==
    (IF raised # NoAPIError THEN {<<response, raised>>} ELSE {})
    \cup (IF spc = "thrown" /\ sResponse # NoResponse /\ ~sResponse.ok
          THEN {<<sResponse, sThrown>>} ELSE {})

\* C11: on request and on stream a non-2xx response raises a CGateAPIError with
\* statusCode = response status and response = the parsed JSON body (undefined
\* when the body is not JSON); on stream it is raised before the body reader is
\* acquired and before any value is yielded.
C11_APIErrorFields ==
    /\ \A p \in RaisedErrors :
          /\ p[2].name = "CGateAPIError"
          /\ p[2].statusCode = p[1].status
          /\ p[1].body.kind = "invalid" => p[2].response = NoBody
          /\ (p[1].body.kind # "invalid" /\ ~signalAborted) => p[2].response = p[1].body
    /\ (pc = "rejected" /\ outcomes # <<>> /\ outcomes[Len(outcomes)] = "non2xx")
          => thrown.name = "CGateAPIError" /\ raised # NoAPIError
    /\ (spc \in {"errorBody", "thrown"} /\ sResponse # NoResponse /\ ~sResponse.ok)
          => /\ yielded = <<>>
             /\ ~locked
             /\ fullBody = <<>>
             /\ processed = <<>>

C11_Witness ==
    /\ spc = "thrown"
    /\ sThrown.name = "CGateAPIError"
    /\ sThrown.statusCode = 404
    /\ sThrown.response.kind = "object"
    /\ sThrown.response.errKind = "object"

\* C12 (as claimed): a body {"error": {"message": X, "type": Y}} with X and Y any
\* strings gives message = X and errorType = Y.
C12_ErrorObjectAnyStrings ==
    \A p \in RaisedErrors :
        (/\ p[2].response = p[1].body
         /\ p[1].body.kind = "object"
         /\ p[1].body.errKind = "object"
         /\ p[1].body.message # Undefined
         /\ p[1].body.type # Undefined)
            => /\ p[2].message = p[1].body.message
               /\ p[2].errorType = p[1].body.type

\* C12 (amended): a body {"error": {"message": X, "type": Y}} with X any non-empty
\* string and Y any string gives message = X and errorType = Y; an empty X gives
\* the message "HTTP <status>: <statusText>".
C12_ErrorObjectNonEmpty ==
    \A p \in RaisedErrors :
        (/\ p[2].response = p[1].body
         /\ p[1].body.kind = "object"
         /\ p[1].body.errKind = "object"
         /\ p[1].body.message # Undefined
         /\ p[1].body.type # Undefined)
            => /\ p[1].body.message # "" => p[2].message = p[1].body.message
               /\ p[1].body.message = "" =>
                     p[2].message =
                        "HTTP " \o ToString(p[1].status) \o ": " \o p[1].statusText
               /\ p[2].errorType = p[1].body.type

C12_Witness ==
    /\ pc = "rejected"
    /\ raised.message = "boom"
    /\ raised.errorType = ""
    /\ response.body.errKind = "object"

\* C13: a body {"error": X} with X any string (the empty one included) gives
\* message = X and no errorType.
C13_ErrorString ==
    \A p \in RaisedErrors :
        (/\ p[2].response = p[1].body
         /\ p[1].body.kind = "object"
         /\ p[1].body.errKind = "string")
            => /\ p[2].message = p[1].body.message
               /\ p[2].errorType = Undefined

C13_Witness ==
    /\ pc = "rejected"
    /\ response.body.errKind = "string"
    /\ response.body.message = ""
    /\ raised.message = ""
    /\ raised.name = "CGateAPIError"

\* C14: a non-2xx response whose body is not JSON raises a CGateAPIError with
\* the message "HTTP <status>: <statusText>", and no other error.
C14_UnparsableBody ==
    /\ \A p \in RaisedErrors :
          p[1].body.kind = "invalid"
             => /\ p[2].name = "CGateAPIError"
                /\ p[2].message =
                      "HTTP " \o ToString(p[1].status) \o ": " \o p[1].statusText
    /\ (pc = "rejected" /\ ~response.ok /\ response.body.kind = "invalid")
          => thrown.name = "CGateAPIError"

C14_Witness ==
    /\ spc = "thrown"
    /\ sResponse.body.kind = "invalid"
    /\ sThrown.message = "HTTP 404: Not Found"

\* a line is the [DONE] line / a data line with a JSON payload
IsDoneLine(line) == Trim(line) = DataPrefix \o DoneSentinel
IsValueLine(line) ==
    /\ StartsWith(Trim(line), DataPrefix)
    /\ ~IsDoneLine(line)
    /\ JsonValid(Slice6(Trim(line)))

\* the decoder has met a [DONE] line
SawDone == \E i \in 1..Len(processed) : IsDoneLine(processed[i])

\* the complete (line feed terminated) lines of the whole body
CompleteLines == Front(Split(DecodeChunk(<<>>, fullBody).chars))

\* C17: when the decoder meets a `data: [DONE]` line the sequence ends
\* successfully; that line yields no value, and afterwards nothing is yielded,
\* no line is processed and the reader is not read again.
C17_DoneEndsStream ==
    /\ [](SawDone => /\ spc = "done"
                     /\ ~locked
                     /\ sThrown = NoAPIError
                     /\ IsDoneLine(Last(processed)))
    /\ [][(SawDone' /\ ~SawDone) => yielded' = yielded]_vars
    /\ [][SawDone => UNCHANGED <<yielded, wire, processed, spc>>]_vars

C17_Witness ==
    /\ SawDone
    /\ spc = "done"
    /\ wire # <<>>
    /\ buffer # <<>>

\* C18: a line without the `data: ` prefix or with a payload that is not JSON
\* yields no value and raises no error, and the lines after it are processed:
\* the values yielded are one per value line processed, and a sequence that ends
\* by exhaustion of the body has processed every complete line.
C18_BadLinesSkipped ==
    /\ Len(yielded) = Cardinality({i \in 1..Len(processed) : IsValueLine(processed[i])})
    /\ spc = "thrown" => sThrown.name \in {"TypeError", "CGateError", "CGateAPIError"}
    /\ (spc = "done" /\ ~SawDone) => processed = CompleteLines

C18_Witness ==
    /\ spc = "done"
    /\ Len(processed) = 2
    /\ processed[1] = DataPrefix \o <<"x">>
    /\ IsValueLine(processed[2])
    /\ Len(yielded) = 1

\* the values of the lines `ls`, as the loop yields them
RECURSIVE AllValues(_)
AllValues(ls) ==
    LET r == RunLines(ls, <<>>) IN
    IF r.kind = "yield" THEN <<r.value>> \o AllValues(r.rest) ELSE <<>>

\* the values yielded when the whole body arrives as one chunk
OneChunkValues == AllValues(Front(Split(DecodeChunk(<<>>, fullBody).chars)))

\* C19: whatever the split of the body into chunks, the values yielded are those
\* yielded when the body arrives as one chunk, in the same order.
C19_ChunkIndependent ==
    /\ Len(yielded) <= Len(OneChunkValues)
    /\ yielded = SubSeq(OneChunkValues, 1, Len(yielded))
    /\ spc = "done" => yielded = OneChunkValues

\* a chunk ended inside the two-byte character of the second value, after the
\* first value was yielded
C19_Witness ==
    /\ spc = "reading"
    /\ pending # <<>>
    /\ Len(yielded) = 1
    /\ Len(OneChunkValues) = 2
    /\ OneChunkValues[2].str = <<"U+00E9">>

\* C20: a stream sequence calls fetchImpl exactly once, also when that call fails
\* with a network error (which request would retry).
C20_StreamOneCall ==
    /\ sFetches <= 1
    /\ spc # "idle" => sFetches = 1
    /\ sThrown.name = "TypeError" => spc = "thrown"

C20_Witness ==
    /\ spc = "thrown"
    /\ sThrown = StreamError("TypeError", "fetch failed")
    /\ sFetches = 1
    /\ maxRetries >= 1

\* the sequence has ended
StreamEnded == spc \in {"done", "thrown", "closed"}

\* C21: once the body reader is acquired its lock is released on every way the
\* sequence ends (body exhausted, [DONE], a read error, the consumer closing
\* early): the lock is held only while the sequence is reading or suspended at
\* a yield.
C21_ReaderReleased ==
    /\ StreamEnded => ~locked
    /\ locked => spc \in {"reading", "yielded"}
    /\ spc \in {"reading", "yielded"} => locked

C21_Witness ==
    /\ spc = "closed"
    /\ ~locked
    /\ Len(yielded) = 1
    /\ wire # <<>>

\* C22: when the signal given in the options of a streaming chat completion
\* aborts, fetchImpl observes it, the sequence ends with an AbortError and no
\* value is yielded after the abort.
C22_CreateSignalCancels ==
    (viaCreate /\ callerSignal # "none") =>
        /\ fetchObserves
        /\ callerSignal = "aborted" =>
               /\ Len(yielded) = yieldedAtAbort
               /\ spc # "done"
               /\ spc = "thrown" => sThrown.name = "AbortError"

\* the path of a URL contains no empty segment ("//")
NoDoubleSlash(u) == \A i \in 1..Len(u.segs) : u.segs[i] # ""

\* C15 (as claimed): the request URL is the base URL joined by one "/" with the
\* path stripped of its leading slash: the whole path of the base URL is a
\* prefix of the path of the request URL and there is no double slash.
C15_BaseIsPrefix ==
    built.called
        => /\ built.url.host = baseURL.host
           /\ built.url.segs = baseURL.segs \o built.path.segs
           /\ NoDoubleSlash(built.url)

\* C16: each query parameter given with a defined value appears exactly once in
\* the URL, with its value as a string; one given as undefined, and any key of a
\* call without query, does not appear.
C16_QueryParams ==
    built.called
        => \A i \in 1..Len(QueryKeys) :
              LET key == QueryKeys[i]
                  hits == {j \in 1..Len(built.url.params) : built.url.params[j][1] = key}
              IN  IF /\ built.hasQuery
                     /\ key \in DOMAIN built.query
                     /\ built.query[key].type # "undefined"
                  THEN /\ Cardinality(hits) = 1
                       /\ \A j \in hits :
                             built.url.params[j][2] =
                                CASE built.query[key].type = "number" ->
                                        ToString(built.query[key].num)
                                  [] built.query[key].type = "boolean" ->
                                        (IF built.query[key].flag THEN "true" ELSE "false")
                                  [] OTHER -> built.query[key].str
                  ELSE hits = {}

C16_Witness ==
    /\ built.called
    /\ built.hasQuery
    /\ DOMAIN built.query = {"limit", "q"}
    /\ built.query["limit"] = QueryValue("number", 0, "", FALSE)
    /\ built.query["q"] = UndefinedValue
    /\ built.url.params = <<<<"limit", "0">>>>

\* a URL ends with "/"
EndsWithSlash(u) == u.segs # <<>> /\ u.segs[Len(u.segs)] = ""

\* C24 (as claimed): the stored base URL never ends with "/": a configured base
\* URL with a trailing slash is stored with it stripped, one without is stored
\* unchanged, and getBaseURL returns the stored value, used by later requests.
C24_NoTrailingSlash ==
    client = "constructed" =>
        /\ ~EndsWithSlash(baseURL)
        /\ ~EndsWithSlash(configBase) => baseURL = configBase
        /\ reported # NoURL => reported = baseURL
        /\ built.called => built.url = ResolveURL(StripLeadingSlash(built.path), baseURL)

\* C25 (as claimed): a client constructed without the baseURL option reports
\* https://api.cognipeer.ai/api/client/v1.
C25_DefaultBaseAI ==
    (client = "constructed" /\ options.baseURL = AbsentURL /\ reported # NoURL) =>
        reported = URL("api.cognipeer.ai", <<"api", "client", "v1">>, <<>>)

\* C26: construction with an empty API key, or with no fetch in the runtime and
\* none injected, throws from the constructor (a CGateError when fetch is what
\* is missing), and a failed construction makes no HTTP call.
C26_ConstructionFails ==
    /\ client # "none" =>
          /\ (options.apiKey = "" \/ (~options.fetch /\ ~globalFetch)) => client = "threw"
          /\ (options.apiKey = "test-key" /\ ~options.fetch /\ ~globalFetch)
                => ctorThrown = "CGateError"
    /\ client = "threw" => ctorThrown # "none" /\ calls = 0 /\ ~built.called
    /\ client = "none" => calls = 0 /\ ~built.called

C26_Witness ==
    /\ client = "threw"
    /\ ctorThrown = "CGateError"
    /\ options.apiKey = "test-key"
    /\ ~options.fetch
    /\ ~globalFetch

\* C23: concurrent request calls on one client do not affect each other: every
\* retry of a call starts exactly its own backoff after the failure of its
\* previous attempt, whatever the other calls are doing, and the number of
\* attempts and the outcome of a call follow from the outcomes of its own
\* attempts alone.
C23_CallsIndependent ==
    \A c \in Calls :
        LET n == Len(coutcomes[c]) IN
        /\ Len(cstarts[c]) <= maxRetries + 1
        /\ \A k \in 2..Len(cstarts[c]) :
              cstarts[c][k] = cends[c][k - 1] + Backoff(k - 2)
        /\ \A k \in 1..(n - 1) : coutcomes[c][k] = "network"
        /\ cpc[c] = "resolved" <=> (n > 0 /\ coutcomes[c][n] = "ok")
        /\ cpc[c] = "rejected" <=>
              (n > 0 /\ \/ coutcomes[c][n] = "non2xx"
                        \/ coutcomes[c][n] = "network" /\ n = maxRetries + 1)
        /\ cpc[c] = "sleeping" <=>
              (n > 0 /\ coutcomes[c][n] = "network" /\ Len(cstarts[c]) = n
                     /\ n <= maxRetries)

\* call 2 starts and resolves during the second backoff wait of call 1, which
\* goes on to fail all of its attempts
C23_Witness ==
    /\ cpc[1] = "rejected"
    /\ Len(cstarts[1]) = 3
    /\ cpc[2] = "resolved"
    /\ cends[1][2] < cstarts[2][1]
    /\ cends[2][1] < cstarts[1][3]

\* the payloads the tracing API has received from flush f
PayloadsOf(f) == {i \in 1..Len(tServer) : tServer[i].flush = f}
\* event e is in payload number i
InPayload(e, i) == \E j \in 1..Len(tServer[i].events) : tServer[i].events[j] = e
\* s is a prefix of t
IsPrefix(s, t) == Len(s) <= Len(t) /\ s = SubSeq(t, 1, Len(s))

\* C27 (as claimed): once endSession(status) has resolved, the tracing API has
\* received a payload of that call, carrying that status.
C27_EndSessionReported ==
    \A f \in FlushIds :
        (tFlush[f].viaEnd /\ tFlush[f].phase = "done") =>
            \E i \in PayloadsOf(f) : tServer[i].status = tFlush[f].status

C29_EventsDelivered ==
    \A f \in FlushIds :
        tFlush[f].phase = "done" =>
            \A e \in 1..tFlush[f].known : \E i \in 1..Len(tServer) : InPayload(e, i)

\* C30 (as claimed): no event is in two payloads the tracing API received.
C30_NoDuplicateDelivery ==
    \A e \in 1..tRecorded :
        Cardinality({i \in 1..Len(tServer) : InPayload(e, i)}) <= 1

\* C31: when the ingest request of a flush fails, flush rejects and leaves the
\* event buffer as it is (the step that rejects changes neither this.events nor
\* what it holds), so a flush started while a rejected flush's array is still
\* the buffer sends that flush's events again.
C31_RejectKeepsBuffer ==
    [][\A f \in FlushIds :
          /\ (tFlush[f].phase # "rejected" /\ tFlush'[f].phase = "rejected")
                 => (tArrays' = tArrays /\ tCur' = tCur)
          /\ \A g \in FlushIds :
                 (/\ tFlush[f].phase = "rejected"
                  /\ tFlush[f].arr = tCur
                  /\ tFlush[g].phase = "unused"
                  /\ tFlush'[g].phase # "unused")
                 => (/\ tFlush'[g].phase = "sent"
                     /\ IsPrefix(tFlush[f].atStart, tFlush'[g].wire))]_vars

\* a flush was rejected and a later one carries its events to the API
C31_Witness ==
    /\ tFlush[1].phase = "rejected"
    /\ tFlush[1].atStart # <<>>
    /\ tFlush[2].phase = "done"
    /\ tFlush[2].arr = tFlush[1].arr
    /\ IsPrefix(tFlush[1].atStart, tFlush[2].wire)
    /\ Len(tServer) = 1
    /\ tServer[1].flush = 2
    /\ tServer[1].events = tFlush[2].wire

\* the calls of flush that the handler of event e made
HandlerFlushes(e) ==
    {f \in FlushIds : /\ tFlush[f].phase # "unused"
                      /\ ~tFlush[f].viaEnd
                      /\ tFlush[f].known = e
                      /\ tFlush[f].status \in {"running", "error"}}

\* C33: chain, LLM and tool end handlers flush, with status 'running', only
\* when autoFlush is on (and then they do); error handlers flush with status
\* 'error' whatever autoFlush is; start handlers never flush.
C33_HandlerFlushes ==
    \A e \in 1..tRecorded :
        LET fs == HandlerFlushes(e) IN
        /\ tKinds[e] = "start" => fs = {}
        /\ tKinds[e] = "end" =>
               IF autoFlush
               THEN Cardinality(fs) = 1 /\ \A f \in fs : tFlush[f].status = "running"
               ELSE fs = {}
        /\ tKinds[e] = "error" =>
               Cardinality(fs) = 1 /\ \A f \in fs : tFlush[f].status = "error"

\* with autoFlush off: an end event recorded without a flush, then an error
\* event whose handler made the only flush so far
C33_Witness ==
    /\ ~autoFlush
    /\ tKinds = <<"end", "error">>
    /\ tFlush[1].phase = "sent"
    /\ tFlush[1].status = "error"
    /\ tFlush[1].known = 2
    /\ tFlush[2].phase = "unused"

\* C32: when an agent run ends through the middleware's afterAgent hook, the
\* last payload the tracing API has ingested carries status 'completed',
\* whatever autoFlush is.
C32_LastPayloadCompleted ==
    AfterAgentReturned =>
        /\ tServer # <<>>
        /\ tServer[Len(tServer)].status = "completed"

\* C34: once an attempt of a request call has received a 2xx response, the call
\* makes no further HTTP attempt, also when the body of that response then fails
\* to parse as JSON: an attempt answered 2xx is the last attempt of its call.
C34_NoAttemptAfter2xx ==
    \A i \in 1..Len(outcomes) : outcomes[i] = "ok" => Len(starts) = i

\* C35: for every maxRetries, 0 and negative values included, a request call
\* that has settled made at least one and at most max(maxRetries, 0) + 1 attempts.
C35_AttemptBounds ==
    Settled =>
        /\ Attempts >= 1
        /\ Attempts <= (IF maxRetries > 0 THEN maxRetries ELSE 0) + 1

\* C36: with no external signal and timers that eventually fire, every request
\* call eventually settles, also when the server never answers an attempt or
\* sends the response headers and then never finishes the body.
C36_EventuallySettles == (pc # "idle") ~> Settled

\* the lines of the whole body, the last one as it stands when the body ends
BodyLines == Split(DecodeChunk(<<>>, fullBody).chars)

\* the parsed payloads of the data lines among `ls`, in the order of the lines
RECURSIVE LineValues(_)
LineValues(ls) ==
    IF ls = <<>> THEN <<>>
    ELSE (IF IsValueLine(Head(ls))
          THEN <<JsonParse(Slice6(Trim(Head(ls))))>>
          ELSE <<>>) \o LineValues(Tail(ls))

\* C37: the values yielded by one stream sequence are the parsed payloads of
\* the body's data lines in the order of those lines, one value per line: at
\* every moment they are the payloads of the data lines among the first n lines
\* of the body, for some n.
C37_YieldedInLineOrder ==
    \E n \in 0..Len(BodyLines) : yielded = LineValues(SubSeq(BodyLines, 1, n))

\* two different values were yielded and the sequence has ended
C37_Witness ==
    /\ spc = "done"
    /\ Len(yielded) = 2
    /\ yielded[1] # yielded[2]
    /\ LineValues(BodyLines) = yielded

\* C38: when the stream body ends without a [DONE] line, a last `data: ` line
\* that is not followed by a line feed is still decoded and its value yielded:
\* a sequence that ended by exhaustion of the body has yielded the payloads of
\* all data lines of the body, the unterminated last line included.
C38_LastLineYielded ==
    (spc = "done" /\ ~SawDone) => yielded = LineValues(BodyLines)

\* C39: an error the consumer injects into the sequence (generator throw) while
\* it is suspended at a yield ends the sequence with that error, and no further
\* value is yielded.
C39_InjectedErrorEnds ==
    injectedAt # -1 => (spc = "thrown" /\ Len(yielded) = injectedAt)

====
